---- MODULE Spec2Model ----
(***************************************************************************)
(* Content-based movie recommender (recommender.ipynb).                    *)
(*                                                                         *)
(* find_recommendations(query, n) reads the dataset, appends the query to  *)
(* the list of plots, turns the list into TF-IDF vectors, scores every     *)
(* plot against the query by cosine similarity and returns the rows        *)
(*     movies.iloc[cos_sims.argsort()[-n:][::-1]].                         *)
(*                                                                         *)
(* Strings are sequences of one-character strings.  Real numbers are       *)
(* fixed-point integers: idf in 1/1000, vector components in 1/1000 and    *)
(* similarities in 1/1000000.  Array indices are 0-based as in the code;   *)
(* position i of an array is element i + 1 of the sequence modelling it.   *)
(***************************************************************************)
EXTENDS Integers, Sequences, FiniteSets, TLC

VARIABLES movies, tieOrder, called, query, n, corpus, cos_sims, top_idxs,
          result, error, ref

vars == <<movies, tieOrder, called, query, n, corpus, cos_sims, top_idxs,
          result, error, ref>>

(***************************************************************************)
(* Bounds of the model.                                                    *)
(***************************************************************************)
MaxDocs == 2
MaxDocsRepeat == 1
MaxN == 3
MaxNeg == 2

(***************************************************************************)
(* Fixed-point scales and the number of series terms used for ln.          *)
(***************************************************************************)
LnScale == 10000
LnTerms == 8
Unit == 1000

----------------------------------------------------------------------------
(***************************************************************************)
(* Text analysis of TfidfVectorizer(): lowercase=True and                  *)
(* token_pattern = (?u)\b\w\w+\b, no stop words.                           *)
(***************************************************************************)
LowerLetters ==
    <<"a", "b", "c", "d", "e", "f", "g", "h", "i", "j", "k", "l", "m",
      "n", "o", "p", "q", "r", "s", "t", "u", "v", "w", "x", "y", "z">>

UpperLetters ==
    <<"A", "B", "C", "D", "E", "F", "G", "H", "I", "J", "K", "L", "M",
      "N", "O", "P", "Q", "R", "S", "T", "U", "V", "W", "X", "Y", "Z">>

Digits == {"0", "1", "2", "3", "4", "5", "6", "7", "8", "9"}

Range(s) == {s[i] : i \in DOMAIN s}

\* the array of f[1] .. f[k]
RECURSIVE Tabulate(_, _)
Tabulate(f, k) == IF k = 0 THEN <<>> ELSE Append(Tabulate(f, k - 1), f[k])

UpperSet == Range(UpperLetters)

WordChars == Range(LowerLetters) \cup Digits \cup {"_"}

\* str.lower() of one character
Lower(c) ==
    IF c \in UpperSet
    THEN LowerLetters[CHOOSE i \in 1..26 : UpperLetters[i] = c]
    ELSE c

\* the regular expression class \w, after lower-casing
IsWordChar(c) == c \in WordChars

\* a run of word characters is a token when it has two characters or more
EmitRun(tokens, run) == IF Len(run) >= 2 THEN Append(tokens, run) ELSE tokens

RECURSIVE Scan(_, _, _, _)
Scan(s, i, run, tokens) ==
    IF i > Len(s)
    THEN EmitRun(tokens, run)
    ELSE LET c == Lower(s[i])
         IN  IF IsWordChar(c)
             THEN Scan(s, i + 1, Append(run, c), tokens)
             ELSE Scan(s, i + 1, <<>>, EmitRun(tokens, run))

\* the analyzer: the sequence of tokens of a string
Tokenize(s) == Scan(s, 1, <<>>, <<>>)

\* number of occurrences of term t in a token sequence
Count(t, toks) == Cardinality({i \in DOMAIN toks : toks[i] = t})

RECURSIVE SetToSeq(_)
SetToSeq(S) ==
    IF S = {}
    THEN <<>>
    ELSE LET t == CHOOSE x \in S : TRUE
         IN  <<t>> \o SetToSeq(S \ {t})

\* vocabulary_: the distinct terms of all the documents, one column each
Vocabulary(toks) == SetToSeq(UNION {Range(toks[i]) : i \in DOMAIN toks})

\* number of documents that hold term t at least once
DocFreq(t, toks) == Cardinality({i \in DOMAIN toks : t \in Range(toks[i])})

----------------------------------------------------------------------------
(***************************************************************************)
(* Fixed-point arithmetic.                                                 *)
(***************************************************************************)
RECURSIVE Newton(_, _)
Newton(v, x) ==
    LET y == (x + v \div x) \div 2
    IN  IF y >= x THEN x ELSE Newton(v, y)

\* floor of the square root
ISqrt(v) == IF v = 0 THEN 0 ELSE Newton(v, v)

RECURSIVE AtanhSeries(_, _, _)
AtanhSeries(p, z2, k) ==
    IF k >= LnTerms
    THEN 0
    ELSE p \div (2 * k + 1) + AtanhSeries((p * z2) \div LnScale, z2, k + 1)

\* ln(a / b) in 1/LnScale, for a >= b > 0: 2 * atanh((a - b) / (a + b))
Ln(a, b) ==
    LET z  == ((a - b) * LnScale) \div (a + b)
        z2 == (z * z) \div LnScale
    IN  2 * AtanhSeries(z, z2, 0)

\* smooth_idf=True: idf(t) = ln((1 + n) / (1 + df(t))) + 1, in 1/Unit
Idf(nDocs, df) == ((LnScale + Ln(1 + nDocs, 1 + df)) * Unit) \div LnScale

\* u[1] * v[1] + ... + u[k] * v[k]
RECURSIVE DotUpTo(_, _, _)
DotUpTo(u, v, k) == IF k = 0 THEN 0 ELSE u[k] * v[k] + DotUpTo(u, v, k - 1)

\* dot product of two rows over the same vocabulary
Dot(u, v) == DotUpTo(u, v, Len(u))

\* sklearn.preprocessing.normalize(norm="l2"): a zero row stays zero
Normalize(vec) ==
    LET norm == ISqrt(Dot(vec, vec))
    IN  IF norm = 0
        THEN vec
        ELSE Tabulate([j \in DOMAIN vec |-> (vec[j] * Unit) \div norm], Len(vec))

----------------------------------------------------------------------------
(***************************************************************************)
(* The library calls of calculate_cos_similarities.  An operation that can *)
(* raise returns [err, val]; err = "none" when it returns normally.        *)
(***************************************************************************)
Ok(v) == [err |-> "none", val |-> v]
Raise(e) == [err |-> e, val |-> <<>>]

\* TfidfVectorizer().fit_transform(docs): one l2-normalised row per string;
\* raises ValueError("empty vocabulary") when no string yields a token
fit_transform(docs) ==
    LET toks  == Tabulate([i \in DOMAIN docs |-> Tokenize(docs[i])], Len(docs))
        vocab == Vocabulary(toks)
        cols  == Len(vocab)
        idf   == Tabulate([j \in 1..cols |->
                              Idf(Len(docs), DocFreq(vocab[j], toks))], cols)
        Row(i) == Tabulate([j \in 1..cols |->
                               Count(vocab[j], toks[i]) * idf[j]], cols)
    IN  IF cols = 0
        THEN Raise("ValueError")
        ELSE Ok(Tabulate([i \in DOMAIN docs |-> Normalize(Row(i))], Len(docs)))

\* cosine_similarity that accepts an X without rows
cosine_similarity_unchecked(X, Y) ==
    LET y == Normalize(Y)
    IN  Ok(Tabulate([i \in DOMAIN X |-> Dot(Normalize(X[i]), y)], Len(X)))

\* cosine_similarity(X, Y).flatten() for a one-row Y: both sides are
\* normalised again and multiplied; raises ValueError when X has no row
cosine_similarity(X, Y) ==
    IF Len(X) = 0
    THEN Raise("ValueError")
    ELSE LET y == Normalize(Y)
         IN  Ok(Tabulate([i \in DOMAIN X |-> Dot(Normalize(X[i]), y)], Len(X)))

\* s, the query row kept among the documents
WholeMatrix(s) == s

\* s[:-1]
AllButLast(s) == SubSeq(s, 1, Len(s) - 1)

\* s[-1]
Last(s) == s[Len(s)]

\* s[:k], the other end of the array
SliceFirst(s, k) ==
    LET stop == IF k < 0
                THEN (IF Len(s) + k > 0 THEN Len(s) + k ELSE 0)
                ELSE (IF k < Len(s) THEN k ELSE Len(s))
    IN  SubSeq(s, 1, stop)

\* s[-k:]
SliceLast(s, k) ==
    LET start == IF 0 - k < 0
                 THEN (IF Len(s) - k > 0 THEN Len(s) - k ELSE 0)
                 ELSE (IF 0 - k < Len(s) THEN 0 - k ELSE Len(s))
    IN  SubSeq(s, start + 1, Len(s))

\* s, the reversal left out
NoReverse(s) == s

\* s[::-1]
Reverse(s) == Tabulate([i \in 1..Len(s) |-> s[Len(s) + 1 - i]], Len(s))

\* Place of index i in the order in which this build's sort leaves equal keys.
TieRank(i) ==
    IF \E k \in DOMAIN tieOrder : tieOrder[k] = i
    THEN CHOOSE k \in DOMAIN tieOrder : tieOrder[k] = i
    ELSE Len(tieOrder) + 1 + i

\* a[i] sorts before a[j]
Before(a, i, j) ==
    \/ a[i + 1] < a[j + 1]
    \/ a[i + 1] = a[j + 1] /\ TieRank(i) < TieRank(j)

RECURSIVE SortIdx(_, _)
SortIdx(a, todo) ==
    IF todo = {}
    THEN <<>>
    ELSE LET m == CHOOSE i \in todo : \A j \in todo \ {i} : Before(a, i, j)
         IN  <<m>> \o SortIdx(a, todo \ {m})

\* ndarray.argsort(): the indices that sort a in ascending order.  The
\* default kind is not a stable sort, so the order of equal keys is the
\* build's (tieOrder).
argsort(a) == SortIdx(a, {i - 1 : i \in DOMAIN a})

\* movies.iloc[idxs][["Title", "Plot"]].reset_index(drop=True); raises
\* IndexError when a position is out of bounds
iloc(frame, idxs) ==
    IF \E k \in DOMAIN idxs : idxs[k] >= Len(frame)
    THEN Raise("IndexError")
    ELSE Ok(Tabulate([k \in DOMAIN idxs |->
                         [Title |-> frame[idxs[k] + 1].Title,
                          Plot  |-> frame[idxs[k] + 1].Plot]], Len(idxs)))

\* movies["Plot"].to_list()
PlotColumn(frame) == Tabulate([i \in DOMAIN frame |-> frame[i].Plot], Len(frame))

----------------------------------------------------------------------------
(***************************************************************************)
(* The notebook's functions.                                               *)
(***************************************************************************)
\* form_corpus on a list that outlives the call
form_corpus_kept(frame, q) ==
    IF corpus = <<>> THEN Append(PlotColumn(frame), q) ELSE Append(corpus, q)

form_corpus(frame, q) == Append(PlotColumn(frame), q)

calculate_cos_similarities(docs) ==
    LET tfidf_matrix == fit_transform(docs)
    IN  IF tfidf_matrix.err # "none"
        THEN tfidf_matrix
        ELSE cosine_similarity(AllButLast(tfidf_matrix.val),
                               Last(tfidf_matrix.val))

TopIdxs(sims, k) == Reverse(SliceLast(argsort(sims), k))

----------------------------------------------------------------------------
(***************************************************************************)
(* Inputs.                                                                 *)
(***************************************************************************)
PlotNoToken == <<"a", "!">>
PlotOx == <<"O", "x">>
PlotOxUp == <<"o", "x", " ", "u", "p">>

PlotA ==
    <<"c", "a", "t", "s", " ", "a", "n", "d", " ", "d", "o", "g", "s", " ",
      "p", "l", "a", "y">>
PlotB ==
    <<"d", "o", "g", "s", " ", "b", "a", "r", "k", " ", "l", "o", "u", "d",
      "l", "y">>
PlotC ==
    <<"c", "o", "m", "p", "l", "e", "t", "e", "l", "y", " ", "u", "n", "r",
      "e", "l", "a", "t", "e", "d", " ", "t", "e", "x", "t", " ", "a", "b",
      "o", "u", "t", " ", "f", "i", "n", "a", "n", "c", "e">>

QueryEmpty == <<>>
QueryOx == <<"o", "x">>
QueryUp == <<"U", "P", " ", "a">>
QueryDogs == <<"d", "o", "g", "s", " ", "p", "l", "a", "y", "i", "n", "g">>

Plots == {PlotNoToken, PlotOx, PlotOxUp}
Queries == {QueryEmpty, QueryOx, QueryUp, QueryDogs}
Counts == (0 - MaxNeg)..MaxN

\* the rows of movie_plots.csv for a list of plots
Frame(plots) == [i \in DOMAIN plots |-> [Title |-> ToString(i), Plot |-> plots[i]]]

ScenarioMovies ==
    <<[Title |-> "A", Plot |-> PlotA], [Title |-> "B", Plot |-> PlotB],
      [Title |-> "C", Plot |-> PlotC]>>

Datasets ==
    {Frame(p) : p \in UNION {[1..m -> Plots] : m \in 0..MaxDocs}}
        \cup {ScenarioMovies}

\* the orders of 0 .. d-1
Orders(d) ==
    {p \in [1..d -> 0..(d - 1)] : \A i, j \in 1..d : i # j => p[i] # p[j]}

NoRef ==
    [set |-> FALSE, other |-> FALSE, query |-> <<>>, n |-> 0,
     error |-> "none", cos_sims |-> <<>>, top_idxs |-> <<>>, result |-> <<>>]

----------------------------------------------------------------------------
(***************************************************************************)
(* State machine.  movies is the content of movie_plots.csv, read by every *)
(* call; query .. error are the arguments, locals and outcome of the last  *)
(* call of find_recommendations; ref remembers one earlier call and        *)
(* whether a call with other arguments was made since.                     *)
(***************************************************************************)
Init ==
    /\ movies \in Datasets
    /\ tieOrder \in Orders(Len(movies))
    /\ called = FALSE
    /\ query = <<>>
    /\ n = 0
    /\ corpus = <<>>
    /\ cos_sims = <<>>
    /\ top_idxs = <<>>
    /\ result = <<>>
    /\ error = "none"
    /\ ref = NoRef

\* find_recommendations(q, k) for a count k of ks.  The count is drawn last:
\* the corpus and the scores do not depend on it.
find_recommendations(q, ks) ==
    \E docs \in {form_corpus(movies, q)} :
    \E sims \in {calculate_cos_similarities(docs)} :
    \E k \in ks :
    \E idxs \in {IF sims.err = "none" THEN TopIdxs(sims.val, k) ELSE <<>>} :
    \E rows \in {iloc(movies, idxs)} :
        /\ called' = TRUE
        /\ query' = q
        /\ n' = k
        /\ corpus' = docs
        /\ cos_sims' = sims.val
        /\ top_idxs' = idxs
        /\ result' = rows.val
        /\ error' = IF sims.err # "none" THEN sims.err ELSE rows.err
        /\ ref' = IF ref.set /\ (q # ref.query \/ k # ref.n)
                  THEN [ref EXCEPT !.other = TRUE]
                  ELSE ref
        /\ UNCHANGED <<movies, tieOrder>>

\* keep the finished call for comparison with later ones
Remember ==
    /\ called
    /\ ref' = [set |-> TRUE, other |-> FALSE, query |-> query, n |-> n,
               error |-> error, cos_sims |-> cos_sims, top_idxs |-> top_idxs,
               result |-> result]
    /\ ref' # ref
    /\ UNCHANGED <<movies, tieOrder, called, query, n, corpus, cos_sims,
                   top_idxs, result, error>>

Call == \E q \in Queries : find_recommendations(q, Counts)

Next == Call

Spec == Init /\ [][Next]_vars

InitRepeat == Init /\ Len(movies) <= MaxDocsRepeat

NextRepeat == Call \/ Remember

SpecRepeat == InitRepeat /\ [][NextRepeat]_vars

----------------------------------------------------------------------------
(***************************************************************************)
(* Properties.                                                             *)
(***************************************************************************)
D == Len(movies)

DocIdxs == 0..(D - 1)

Min(a, b) == IF a < b THEN a ELSE b

Returned == called /\ error = "none"

\* similarity of document i
Score(i) == cos_sims[i + 1]

\* the documents of the result
Chosen == Range(top_idxs)

\* document i and the query have a token in common
Shares(i) ==
    Range(Tokenize(movies[i + 1].Plot)) \cap Range(Tokenize(query)) # {}

\* no string of the corpus yields a token
AllTokenless == \A i \in DOMAIN corpus : Tokenize(corpus[i]) = <<>>

\* C1: for a non-empty dataset and n > 0 the call raises no error and
\* returns exactly min(n, D) entries.
C1_CountIsMin ==
    called /\ D > 0 /\ n > 0 => error = "none" /\ Len(result) = Min(n, D)

\* C2: a call with n <= 0 that returns, returns the empty result.
C2_EmptyForNonPositive ==
    Returned /\ n <= 0 => result = <<>>

\* C3: documents of equal score are returned in ascending index order, and
\* of the documents tied at the cut-off the lower indices are kept.
C3_TiesByAscendingIndex ==
    Returned /\ n > 0 =>
        /\ \A a, b \in DOMAIN top_idxs :
              a < b /\ Score(top_idxs[a]) = Score(top_idxs[b])
                  => top_idxs[a] < top_idxs[b]
        /\ \A i \in Chosen : \A j \in DocIdxs \ Chosen :
              Score(i) = Score(j) => i < j

\* C4: when the query shares no token with any document, every score is 0
\* and the result is documents 0, 1, ..., min(n, D) - 1 in that order.
C4_FallbackFirstN ==
    Returned /\ n > 0 /\ (\A i \in DocIdxs : ~Shares(i)) =>
        /\ \A i \in DocIdxs : Score(i) = 0
        /\ top_idxs = [k \in 1..Min(n, D) |-> k - 1]

\* C5: the returned documents are in non-increasing order of score and no
\* document left out has a higher score than a returned one.
C5_TopByScore ==
    Returned =>
        /\ \A a, b \in DOMAIN top_idxs :
              a < b => Score(top_idxs[a]) >= Score(top_idxs[b])
        /\ \A i \in Chosen : \A j \in DocIdxs \ Chosen : Score(j) <= Score(i)

C5_Witness ==
    /\ Returned
    /\ Len(top_idxs) >= 2
    /\ Score(top_idxs[1]) > Score(top_idxs[2])
    /\ \E j \in DocIdxs \ Chosen : Score(j) < Score(top_idxs[2])

\* C6: with a dataset of zero documents the call raises an error.
C6_EmptyDatasetRaises ==
    called /\ D = 0 => error # "none"

C6_Witness ==
    called /\ D = 0 /\ Tokenize(query) # <<>> /\ error = "ValueError"

\* C7: when no string of the corpus yields a token, no error is raised and
\* every document has score 0.
C7_TokenlessCorpusScoresZero ==
    called /\ D > 0 /\ AllTokenless =>
        /\ error = "none"
        /\ Len(cos_sims) = D
        /\ \A i \in DocIdxs : Score(i) = 0

C9_SharingFirst ==
    /\ Returned =>
          /\ \A i \in DocIdxs : Shares(i) => Score(i) > 0
          /\ \A i \in DocIdxs : ~Shares(i) => Score(i) = 0
          /\ n > 0 => \A i \in Chosen : \A j \in DocIdxs \ Chosen :
                         ~(~Shares(i) /\ Shares(j))
    /\ called /\ movies = ScenarioMovies /\ query = QueryDogs /\ n = 2 =>
          error = "none" /\ Chosen = {0, 1}

C9_Witness ==
    /\ Returned
    /\ movies = ScenarioMovies /\ query = QueryDogs /\ n = 2
    /\ Len(result) = 2

\* C10: for every n, a call that gets its scores has one score per document
\* of the dataset, positive exactly for the documents that share a token
\* with the query, and returns pairwise distinct rows of the dataset.
C10_ScoresAndRowsOfDataset ==
    called /\ error # "ValueError" =>
        /\ error = "none"
        /\ Len(cos_sims) = D
        /\ \A i \in DocIdxs : Score(i) > 0 <=> Shares(i)
        /\ \A a, b \in DOMAIN top_idxs : a # b => top_idxs[a] # top_idxs[b]
        /\ Chosen \subseteq DocIdxs
        /\ Len(result) = Len(top_idxs)
        /\ \A a \in DOMAIN top_idxs :
              result[a] = [Title |-> movies[top_idxs[a] + 1].Title,
                           Plot  |-> movies[top_idxs[a] + 1].Plot]

C10_Witness ==
    Returned /\ n <= 0 /\ Len(top_idxs) >= 2 /\ (\E i \in DocIdxs : Score(i) > 0)

====
